---- MODULE Spec2Model ----
(***************************************************************************)
(* Model of src/web_uid_validator.js (class WebUIDValidator).              *)
(*                                                                         *)
(* JavaScript values are records [t, cls, neg, hi, lo, half, s, ref]:      *)
(*   t    the result of typeof                                             *)
(*   cls  "fin" | "nan" | "inf" for numbers, "str", "true", "undefined",   *)
(*        "null", "obj", "sym"; "absent" and "getter" only occur as the    *)
(*        slots of a configuration object                                  *)
(*   neg, hi, lo, half  a finite number (half = 1: not an integer)         *)
(*   s    the characters of a string; for an object, what toString gives   *)
(*   ref  the identity of an object or symbol (0 for primitives)           *)
(* Strings are sequences of one-character strings.                         *)
(***************************************************************************)
EXTENDS Integers, Sequences, FiniteSets

VARIABLES DEFAULT_BOT_UID, argUid1, argUid2, argConfig, op, result, console, ncalls

vars == <<DEFAULT_BOT_UID, argUid1, argUid2, argConfig, op, result, console, ncalls>>

\* ------------------------------------------------------------------ bounds
\* number of calls in a run
MaxCalls == 2
\* longest run of leading blanks in the generated string inputs
MaxPad == 1

\* ------------------------------------------------------------- JS values
Digits == <<"0", "1", "2", "3", "4", "5", "6", "7", "8", "9">>

WhiteSpace == {" ", "\t", "\n"}

\* the magnitude of a finite number is hi * Limb + lo + half/2, so that
\* 2^32 and its neighbours are exact
Limb == 2^16

Val(t, cls, neg, hi, lo, half, s, ref) ==
  [t |-> t, cls |-> cls, neg |-> neg, hi |-> hi, lo |-> lo, half |-> half, s |-> s, ref |-> ref]

\* the number with sign neg and magnitude hi * Limb + lo + half/2; -0 === 0
Number(neg, hi, lo, half) ==
  Val("number", "fin", neg /\ (hi # 0 \/ lo # 0 \/ half # 0), hi, lo, half, <<>>, 0)
\* the integer n, |n| < 2^31
Num(n) == IF n < 0 THEN Number(TRUE, (-n) \div Limb, (-n) % Limb, 0)
          ELSE Number(FALSE, n \div Limb, n % Limb, 0)
\* n + 0.5, 0 <= n < 2^31
NumHalf(n) == Number(FALSE, n \div Limb, n % Limb, 1)
NaN == Val("number", "nan", FALSE, 0, 0, 0, <<>>, 0)
Infinity == Val("number", "inf", FALSE, 0, 0, 0, <<>>, 0)
Str(chars) == Val("string", "str", FALSE, 0, 0, 0, chars, 0)
True == Val("boolean", "true", FALSE, 0, 0, 0, <<>>, 0)
Undefined == Val("undefined", "undefined", FALSE, 0, 0, 0, <<>>, 0)
Null == Val("object", "null", FALSE, 0, 0, 0, <<>>, 0)
Obj(r, str) == Val("object", "obj", FALSE, 0, 0, 0, str, r)
Sym(r) == Val("symbol", "sym", FALSE, 0, 0, 0, <<>>, r)

\* Math.pow(2, 32) - 1
MAX_UID == Number(FALSE, Limb - 1, Limb - 1, 0)
\* Math.pow(2, 32)
MAX_UID_PLUS_1 == Number(FALSE, Limb, 0, 0)

\* typeof
typeof(v) == v.t

\* Number.isInteger, used only to state the claims
IsInteger(v) == v.t = "number" /\ v.cls = "fin" /\ v.half = 0

\* isNaN on a number
isNaN(v) == v.cls = "nan"

\* a === b
StrictEquals(a, b) ==
  IF a.t # b.t THEN FALSE
  ELSE IF a.t = "number"
    THEN /\ a.cls # "nan" /\ b.cls # "nan" /\ a.cls = b.cls
         /\ a.neg = b.neg /\ a.hi = b.hi /\ a.lo = b.lo /\ a.half = b.half
  ELSE IF a.t = "string" THEN a.s = b.s
  ELSE IF a.t = "object" THEN a.cls = b.cls /\ a.ref = b.ref
  ELSE IF a.t = "symbol" THEN a.ref = b.ref
  ELSE a.cls = b.cls

\* |a| < |b| for finite numbers
MagLess(a, b) ==
  \/ a.hi < b.hi
  \/ a.hi = b.hi /\ a.lo < b.lo
  \/ a.hi = b.hi /\ a.lo = b.lo /\ a.half < b.half

\* a < b for finite numbers
FiniteLess(a, b) ==
  IF a.neg # b.neg THEN a.neg
  ELSE IF a.neg THEN MagLess(b, a) ELSE MagLess(a, b)

\* a >= b and a <= b for a number a and a finite number b (false for NaN)
NumGE(a, b) == \/ a.cls = "inf"
               \/ a.cls = "fin" /\ ~FiniteLess(a, b)
NumLE(a, b) == a.cls = "fin" /\ ~FiniteLess(b, a)

\* the decimal digits of the natural number hi * Limb + lo
RECURSIVE NatToChars(_, _)
NatToChars(hi, lo) ==
  LET t == (hi % 10) * Limb + lo
  IN IF hi = 0 /\ lo < 10 THEN <<Digits[lo + 1]>>
     ELSE NatToChars(hi \div 10, t \div 10) \o <<Digits[(t % 10) + 1]>>

\* Number::toString for the numbers of the model
NumberToString(v) ==
  IF v.cls = "nan" THEN <<"N", "a", "N">>
  ELSE IF v.cls = "inf" THEN <<"I", "n", "f", "i", "n", "i", "t", "y">>
  ELSE (IF v.neg THEN <<"-">> ELSE <<>>) \o NatToChars(v.hi, v.lo)
         \o (IF v.half = 1 THEN <<".", "5">> ELSE <<>>)

\* ToString: [threw, s]; a symbol throws a TypeError
JSToString(v) ==
  IF v.t = "symbol" THEN [threw |-> TRUE, s |-> <<>>]
  ELSE IF v.t = "number" THEN [threw |-> FALSE, s |-> NumberToString(v)]
  ELSE IF v.t = "string" THEN [threw |-> FALSE, s |-> v.s]
  ELSE IF v.t = "boolean" THEN [threw |-> FALSE, s |-> <<"t", "r", "u", "e">>]
  ELSE IF v.t = "undefined"
    THEN [threw |-> FALSE, s |-> <<"u", "n", "d", "e", "f", "i", "n", "e", "d">>]
  ELSE IF v.cls = "null" THEN [threw |-> FALSE, s |-> <<"n", "u", "l", "l">>]
  ELSE [threw |-> FALSE, s |-> v.s]

RECURSIVE TrimStart(_)
TrimStart(s) == IF s # <<>> /\ Head(s) \in WhiteSpace THEN TrimStart(Tail(s)) ELSE s

RECURSIVE TrimEnd(_)
TrimEnd(s) == IF s # <<>> /\ s[Len(s)] \in WhiteSpace
              THEN TrimEnd(SubSeq(s, 1, Len(s) - 1)) ELSE s

\* String.prototype.trim
trim(s) == TrimEnd(TrimStart(s))

IsDigit(c) == \E d \in 1..10 : Digits[d] = c
DigitVal(c) == (CHOOSE d \in 1..10 : Digits[d] = c) - 1

\* the value of the longest prefix of decimal digits of s, from the
\* accumulator hi * Limb + lo, as <<hi, lo>>
RECURSIVE DigitsValue(_, _, _)
DigitsValue(s, hi, lo) ==
  IF s # <<>> /\ IsDigit(Head(s))
  THEN LET t == lo * 10 + DigitVal(Head(s))
       IN DigitsValue(Tail(s), hi * 10 + t \div Limb, t % Limb)
  ELSE <<hi, lo>>

\* parseInt(chars, 10): blanks are skipped, then an optional sign, then the
\* longest run of digits; no digit gives NaN
ParseIntChars(chars) ==
  LET t == TrimStart(chars)
      neg == t # <<>> /\ Head(t) = "-"
      body == IF t # <<>> /\ Head(t) \in {"-", "+"} THEN Tail(t) ELSE t
  IN IF body = <<>> \/ ~IsDigit(Head(body)) THEN NaN
     ELSE LET m == DigitsValue(body, 0, 0) IN Number(neg, m[1], m[2], 0)

\* parseInt(v, 10): [threw, n]; the argument goes through ToString first
parseInt(v) ==
  LET str == JSToString(v)
  IN IF str.threw THEN [threw |-> TRUE, n |-> NaN]
     ELSE [threw |-> FALSE, n |-> ParseIntChars(str.s)]

\* ------------------------------------------------------------ the class
\* what a predicate hands back: the boolean it returns and the console
\* entries it emitted; threw = TRUE is an exception leaving the function
Returned(b, logs) == [threw |-> FALSE, ret |-> b, logs |-> logs]
Thrown == [threw |-> TRUE, ret |-> FALSE, logs |-> <<>>]

\* String(uid) must be a number from end to end (Number(uid) in place of parseInt)
isBotUserBody_Strict(uid) ==
  IF typeof(uid) = "number" THEN Returned(StrictEquals(uid, Num(DEFAULT_BOT_UID)), <<>>)
  ELSE IF typeof(uid) = "string"
    THEN Returned(uid.s = NumberToString(Num(DEFAULT_BOT_UID)), <<>>)
  ELSE Returned(FALSE, <<"warn">>)

\* the try block of isBotUser
isBotUserBody(uid) ==
  IF typeof(uid) = "number" THEN Returned(StrictEquals(uid, Num(DEFAULT_BOT_UID)), <<>>)
  ELSE IF typeof(uid) = "string"
    THEN LET uidInt == parseInt(uid)
         IN IF uidInt.threw THEN Returned(FALSE, <<"warn">>)
            ELSE Returned(~isNaN(uidInt.n) /\ StrictEquals(uidInt.n, Num(DEFAULT_BOT_UID)), <<>>)
  ELSE Returned(FALSE, <<"warn">>)

isBotUser(uid) ==
  LET r == isBotUserBody(uid)
  IN IF r.threw THEN Returned(FALSE, <<"error">>) ELSE r

\* the try block of isValidWebSDKUID
isValidWebSDKUIDBody(uid) ==
  IF typeof(uid) # "number" /\ typeof(uid) # "string" THEN Returned(FALSE, <<>>)
  ELSE IF typeof(uid) = "string"
    THEN Returned(Len(uid.s) > 0 /\ Len(trim(uid.s)) > 0, <<>>)
  ELSE IF typeof(uid) = "number"
    THEN Returned(NumGE(uid, Num(1)) /\ NumLE(uid, MAX_UID), <<>>)
  ELSE Returned(FALSE, <<>>)

isValidWebSDKUID(uid) ==
  LET r == isValidWebSDKUIDBody(uid)
  IN IF r.threw THEN Returned(FALSE, <<"error">>) ELSE r

\* parseInt(uid, 10) whatever the type
ToNum_ParseAll(uid) == parseInt(uid)

\* Number(uid) in place of parseInt: the string must be a number from end to end
ToNum_Strict(uid) ==
  IF typeof(uid) = "number" THEN [threw |-> FALSE, n |-> uid]
  ELSE LET n == parseInt(uid)
       IN IF ~n.threw /\ ~isNaN(n.n) /\ JSToString(uid).s # NumberToString(n.n)
          THEN [threw |-> FALSE, n |-> NaN] ELSE n

\* typeof uid === "number" ? uid : parseInt(uid, 10)
ToNum(uid) == IF typeof(uid) = "number" THEN [threw |-> FALSE, n |-> uid] ELSE parseInt(uid)

\* without the same-type branch: every pair goes through the conversion
compareUIDsBody_Loose(uid1, uid2) ==
  LET num1 == IF typeof(uid1) = "number" THEN [threw |-> FALSE, n |-> uid1] ELSE parseInt(uid1)
      num2 == IF typeof(uid2) = "number" THEN [threw |-> FALSE, n |-> uid2] ELSE parseInt(uid2)
  IN IF num1.threw \/ num2.threw THEN Thrown
     ELSE IF isNaN(num1.n) \/ isNaN(num2.n) THEN Returned(FALSE, <<>>)
     ELSE Returned(StrictEquals(num1.n, num2.n), <<>>)

\* the try block of compareUIDs
compareUIDsBody(uid1, uid2) ==
  IF typeof(uid1) = typeof(uid2) THEN Returned(StrictEquals(uid1, uid2), <<>>)
  ELSE LET num1 == ToNum(uid1)
           num2 == ToNum(uid2)
       IN IF num1.threw \/ num2.threw THEN Thrown
          ELSE IF isNaN(num1.n) \/ isNaN(num2.n) THEN Returned(FALSE, <<>>)
          ELSE Returned(StrictEquals(num1.n, num2.n), <<>>)

compareUIDs(uid1, uid2) ==
  LET r == compareUIDsBody(uid1, uid2)
  IN IF r.threw THEN Returned(FALSE, <<"error">>) ELSE r

getDefaultBotUID == DEFAULT_BOT_UID

\* a slot of a configuration object that holds no property
Absent == Val("absent", "absent", FALSE, 0, 0, 0, <<>>, 0)
\* a slot that holds an own enumerable accessor whose getter throws
Getter == Val("getter", "getter", FALSE, 0, 0, 0, <<>>, 0)

\* the argument of validateConfiguration: an object with the slots uid and
\* botUid, or null, or undefined; "none" where a call takes no configuration
Config(kind, ref, uid, botUid) == [kind |-> kind, ref |-> ref, uid |-> uid, botUid |-> botUid]
NoConfig == Config("none", 0, Absent, Absent)

\* { ...config }: the own enumerable properties are read one by one, so a
\* throwing getter throws here; null and undefined spread to nothing
SpreadThrows(config) ==
  config.kind = "object" /\ (config.uid.t = "getter" \/ config.botUid.t = "getter")

\* config: config, the caller's object itself
Spread_Alias(config) == config

Spread(config) ==
  IF config.kind = "object" THEN Config("object", 4 + 1, config.uid, config.botUid)
  ELSE Config("object", 4 + 1, Absent, Absent)

\* the strings pushed to errors and warnings
InvalidMessage(field, value) ==
  [kind |-> "invalid", field |-> field, value |-> value, expected |-> <<>>]
NotBotMessage(value, expected) ==
  [kind |-> "not_bot", field |-> "botUid", value |-> value, expected |-> expected]
ExceptionMessage(message) ==
  [kind |-> "exception", field |-> "", value |-> <<message>>, expected |-> <<>>]

\* an exception raised inside the try block: error holds its message
Raise(r, message) == [r EXCEPT !.error = <<message>>]

\* the mismatch with the bot UID is pushed to errors
CheckBotUid_WarnAsError(config, r) ==
  IF config.kind # "object" THEN Raise(r, "Cannot use 'in' operator")
  ELSE IF config.botUid.t = "absent" THEN r
  ELSE IF ~isValidWebSDKUID(config.botUid).ret
    THEN LET str == JSToString(config.botUid)
         IN IF str.threw THEN Raise(r, "Cannot convert a Symbol value to a string")
            ELSE [r EXCEPT !.errors = Append(@, InvalidMessage("botUid", str.s)),
                           !.isValid = FALSE]
  ELSE IF ~isBotUser(config.botUid).ret
    THEN [r EXCEPT !.errors =
            Append(@, NotBotMessage(JSToString(config.botUid).s,
                                    NumberToString(Num(DEFAULT_BOT_UID)))),
                   !.isValid = FALSE]
  ELSE r

\* "botUid" in config, and the branch it guards
CheckBotUid(config, r) ==
  IF config.kind # "object" THEN Raise(r, "Cannot use 'in' operator")
  ELSE IF config.botUid.t = "absent" THEN r
  ELSE IF ~isValidWebSDKUID(config.botUid).ret
    THEN LET str == JSToString(config.botUid)
         IN IF str.threw THEN Raise(r, "Cannot convert a Symbol value to a string")
            ELSE [r EXCEPT !.errors = Append(@, InvalidMessage("botUid", str.s)),
                           !.isValid = FALSE]
  ELSE IF ~isBotUser(config.botUid).ret
    THEN LET str == JSToString(config.botUid)
         IN IF str.threw THEN Raise(r, "Cannot convert a Symbol value to a string")
            ELSE [r EXCEPT !.warnings =
                    Append(@, NotBotMessage(str.s, NumberToString(Num(DEFAULT_BOT_UID))))]
  ELSE r

\* the error is pushed and isValid is left as it was
CheckUid_NoFlag(config, r) ==
  IF r.error # <<>> THEN r
  ELSE IF config.kind # "object" THEN Raise(r, "Cannot use 'in' operator")
  ELSE IF config.uid.t = "absent" THEN r
  ELSE IF ~isValidWebSDKUID(config.uid).ret
    THEN LET str == JSToString(config.uid)
         IN IF str.threw THEN Raise(r, "Cannot convert a Symbol value to a string")
            ELSE [r EXCEPT !.errors = Append(@, InvalidMessage("uid", str.s))]
  ELSE r

\* "uid" in config, and the branch it guards; skipped once an exception is raised
CheckUid(config, r) ==
  IF r.error # <<>> THEN r
  ELSE IF config.kind # "object" THEN Raise(r, "Cannot use 'in' operator")
  ELSE IF config.uid.t = "absent" THEN r
  ELSE IF ~isValidWebSDKUID(config.uid).ret
    THEN LET str == JSToString(config.uid)
         IN IF str.threw THEN Raise(r, "Cannot convert a Symbol value to a string")
            ELSE [r EXCEPT !.errors = Append(@, InvalidMessage("uid", str.s)),
                           !.isValid = FALSE]
  ELSE r

\* the catch block of validateConfiguration
CatchValidation(r) ==
  IF r.error = <<>> THEN r
  ELSE [r EXCEPT !.errors = Append(@, ExceptionMessage(r.error[1])), !.isValid = FALSE]

\* [threw, isValid, errors, warnings, config]; the result object is built,
\* with the copy of config, before the try block is entered
validateConfiguration(config) ==
  IF SpreadThrows(config)
  THEN [threw |-> TRUE, isValid |-> FALSE, errors |-> <<>>, warnings |-> <<>>,
        config |-> NoConfig]
  ELSE LET r0 == [isValid |-> TRUE, errors |-> <<>>, warnings |-> <<>>, error |-> <<>>]
           r == CatchValidation(CheckUid(config, CheckBotUid(config, r0)))
       IN [threw |-> FALSE, isValid |-> r.isValid, errors |-> r.errors,
           warnings |-> r.warnings, config |-> Spread(config)]

\* the console entries of one logUIDInfo call
logUIDInfo(uid) == isBotUser(uid).logs \o isValidWebSDKUID(uid).logs \o <<"log">>

\* ---------------------------------------------------------------- inputs
Pad(n) == [k \in 1..n |-> " "]

Cores ==
  {<<>>, <<"1", "2", "3", "4", "5">>, <<"1", "2", "3", "4", "6">>,
   <<"+", "1", "2", "3", "4", "5">>, <<"-", "1">>}
Tails == {<<>>, <<"a", "b", "c">>}

StringValues == {Str(Pad(p) \o c \o t) : p \in 0..MaxPad, c \in Cores, t \in Tails}

NumberValues ==
  {Num(n) : n \in {-1, 0, 1, 999, 12345, 12346}} \cup {MAX_UID, MAX_UID_PLUS_1, NumHalf(12345), NaN, Infinity}

PlainObject ==
  Obj(1, <<"[", "o", "b", "j", "e", "c", "t", " ", "O", "b", "j", "e", "c", "t", "]">>)
\* the array [12345], whose toString gives "12345"
ArrayObject == Obj(2, <<"1", "2", "3", "4", "5">>)

OtherValues == {True, Null, Undefined, PlainObject, ArrayObject, Sym(3)}

UIDValues == NumberValues \cup StringValues \cup OtherValues

\* the configurations built from the two values: each slot is absent, holds
\* the value, or holds a throwing getter; or the argument is null or undefined
ConfigsOf(u, b) ==
  {Config("object", 4, x, y) : x \in {Absent, Getter, u}, y \in {Absent, Getter, b}}
    \cup {Config("null", 0, Absent, Absent), Config("undefined", 0, Absent, Absent)}

\* ----------------------------------------------------------------- state
\* argUid1, argUid2 and argConfig are the arguments the caller holds; op is the last
\* function called on them, result what it handed back, console the entries
\* it emitted

\* kind is "bool", "number", "validation", "void", or "throw" when an
\* exception reached the caller
Result(kind, b, n, v) ==
  [kind |-> kind, b |-> b, n |-> n, isValid |-> v.isValid, errors |-> v.errors,
   warnings |-> v.warnings, config |-> v.config]
NoValidation == [isValid |-> FALSE, errors |-> <<>>, warnings |-> <<>>, config |-> NoConfig]
BoolResult(r) == Result(IF r.threw THEN "throw" ELSE "bool", r.ret, 0, NoValidation)
ValidationResult(v) == Result(IF v.threw THEN "throw" ELSE "validation", FALSE, 0, v)

Init ==
  /\ DEFAULT_BOT_UID = 12345
  /\ argUid1 \in UIDValues
  /\ argUid2 \in UIDValues
  /\ argConfig \in ConfigsOf(argUid1, argUid2)
  /\ op = "none"
  /\ result = Result("none", FALSE, 0, NoValidation)
  /\ console = <<>>
  /\ ncalls = 0

\* the comparison written as the assignment DEFAULT_BOT_UID = uid
IsBotUserCall_Assigns ==
  /\ ncalls < MaxCalls
  /\ op' = "isBotUser"
  /\ result' = BoolResult(isBotUser(argUid1))
  /\ console' = isBotUser(argUid1).logs
  /\ ncalls' = ncalls + 1
  /\ DEFAULT_BOT_UID' = IF IsInteger(argUid1) /\ argUid1.hi = 0 THEN argUid1.lo ELSE 0
  /\ UNCHANGED <<argUid1, argUid2, argConfig>>

IsBotUserCall ==
  /\ ncalls < MaxCalls
  /\ op' = "isBotUser"
  /\ result' = BoolResult(isBotUser(argUid1))
  /\ console' = isBotUser(argUid1).logs
  /\ ncalls' = ncalls + 1
  /\ UNCHANGED <<DEFAULT_BOT_UID, argUid1, argUid2, argConfig>>

IsValidWebSDKUIDCall ==
  /\ ncalls < MaxCalls
  /\ op' = "isValidWebSDKUID"
  /\ result' = BoolResult(isValidWebSDKUID(argUid1))
  /\ console' = isValidWebSDKUID(argUid1).logs
  /\ ncalls' = ncalls + 1
  /\ UNCHANGED <<DEFAULT_BOT_UID, argUid1, argUid2, argConfig>>

CompareUIDsCall ==
  /\ ncalls < MaxCalls
  /\ op' = "compareUIDs"
  /\ result' = BoolResult(compareUIDs(argUid1, argUid2))
  /\ console' = compareUIDs(argUid1, argUid2).logs
  /\ ncalls' = ncalls + 1
  /\ UNCHANGED <<DEFAULT_BOT_UID, argUid1, argUid2, argConfig>>

GetDefaultBotUIDCall ==
  /\ ncalls < MaxCalls
  /\ op' = "getDefaultBotUID"
  /\ result' = Result("number", FALSE, getDefaultBotUID, NoValidation)
  /\ console' = <<>>
  /\ ncalls' = ncalls + 1
  /\ UNCHANGED <<DEFAULT_BOT_UID, argUid1, argUid2, argConfig>>

ValidateConfigurationCall ==
  /\ ncalls < MaxCalls
  /\ op' = "validateConfiguration"
  /\ result' = ValidationResult(validateConfiguration(argConfig))
  /\ console' = <<>>
  /\ ncalls' = ncalls + 1
  /\ UNCHANGED <<DEFAULT_BOT_UID, argUid1, argUid2, argConfig>>

LogUIDInfoCall ==
  /\ ncalls < MaxCalls
  /\ op' = "logUIDInfo"
  /\ result' = Result("void", FALSE, 0, NoValidation)
  /\ console' = logUIDInfo(argUid1)
  /\ ncalls' = ncalls + 1
  /\ UNCHANGED <<DEFAULT_BOT_UID, argUid1, argUid2, argConfig>>

Next ==
  \/ IsBotUserCall
  \/ IsValidWebSDKUIDCall
  \/ CompareUIDsCall
  \/ GetDefaultBotUIDCall
  \/ ValidateConfigurationCall
  \/ LogUIDInfoCall

Spec == Init /\ [][Next]_vars

\* ================================================================ claims
Present(slot) == slot.t # "absent"
IsString(v) == v.t = "string"
\* the integer 12345
BotNumber == Num(12345)
BotChars == <<"1", "2", "3", "4", "5">>
Called(name) == op = name /\ result.kind # "throw"

\* ---- C1
\* what the policy table gives: integers in 1 .. 2^32 - 1, strings that are
\* not empty once trimmed, nothing else
PolicyTable(v) ==
  IF IsInteger(v) THEN NumGE(v, Num(1)) /\ NumLE(v, MAX_UID)
  ELSE IF IsString(v) THEN \E k \in 1..Len(v.s) : v.s[k] \notin WhiteSpace
  ELSE FALSE

\* C1: isValidWebSDKUID(uid) follows the policy table for every input: an
\* integer is valid iff 1 <= uid <= 2^32 - 1, a string iff it is not empty
\* and not blank, every other value is invalid.
C1_PolicyTable ==
  op = "isValidWebSDKUID" => result.kind = "bool" /\ result.b = PolicyTable(argUid1)

\* ---- C2
\* s is blanks, an optional sign +, zeros, the digits 12345, and then the end
\* of the string or a character that is no digit
LeadingBotToken(s) ==
  \E p \in 0..Len(s), sg \in 0..1, z \in 0..Len(s) :
    LET start == p + sg + z
    IN /\ start + 5 <= Len(s)
       /\ \A k \in 1..p : s[k] \in WhiteSpace
       /\ sg = 1 => s[p + 1] = "+"
       /\ \A k \in (p + sg + 1)..start : s[k] = "0"
       /\ SubSeq(s, start + 1, start + 5) = BotChars
       /\ (start + 5 = Len(s) \/ ~IsDigit(s[start + 6]))

\* C2: isBotUser(uid) returns true exactly when uid is the integer 12345 or
\* a string whose leading numeric token parses, base 10, to 12345; it
\* returns false for every other string and every other kind of value.
C2_IsBotUser ==
  op = "isBotUser" =>
    /\ result.kind = "bool"
    /\ result.b = IF IsInteger(argUid1) THEN argUid1 = BotNumber
                  ELSE IF IsString(argUid1) THEN LeadingBotToken(argUid1.s)
                  ELSE FALSE

C2_Witness ==
  /\ op = "isBotUser"
  /\ argUid1 = Str(<<" ">> \o BotChars \o <<"a", "b", "c">>)
  /\ result.b

\* ---- C3
\* base-10 parse as a coercion: TRUE and the number, or FALSE where the
\* conversion fails or the result is not a number
Coerced(v) ==
  LET n == parseInt(v)
  IN [ok |-> ~n.threw /\ ~isNaN(n.n), n |-> n.n]

\* the comparison when both values are coerced
BothCoerced(a, b) ==
  Coerced(a).ok /\ Coerced(b).ok /\ StrictEquals(Coerced(a).n, Coerced(b).n)

\* the comparison when only the value that is no number is coerced
OtherCoerced(a, b) ==
  LET x == IF a.t = "number" THEN [ok |-> ~isNaN(a), n |-> a] ELSE Coerced(a)
      y == IF b.t = "number" THEN [ok |-> ~isNaN(b), n |-> b] ELSE Coerced(b)
  IN x.ok /\ y.ok /\ StrictEquals(x.n, y.n)

\* C3 as stated: same kind, strict equality; kinds differ, both values are
\* coerced to integer by base-10 parse and the integers compared.
C3_BothCoerced ==
  op = "compareUIDs" =>
    /\ result.kind = "bool"
    /\ result.b = IF argUid1.t = argUid2.t THEN StrictEquals(argUid1, argUid2)
                  ELSE BothCoerced(argUid1, argUid2)

\* C3 amended: same kind, strict equality with no coercion; kinds differ, a
\* number is taken as it is and the other value is coerced by base-10 parse,
\* the result is false if a coercion fails or a side is not a number, and
\* otherwise the equality of the two numbers.
C3_CompareUIDs ==
  op = "compareUIDs" =>
    /\ result.kind = "bool"
    /\ result.b = IF argUid1.t = argUid2.t THEN StrictEquals(argUid1, argUid2)
                  ELSE OtherCoerced(argUid1, argUid2)
    /\ (IsString(argUid1) /\ IsString(argUid2) => result.b = (argUid1.s = argUid2.s))

C3_Witness ==
  /\ op = "compareUIDs"
  /\ argUid1 = BotNumber
  /\ argUid2 = Str(BotChars)
  /\ result.b

\* ---- C4
FailsCheck(slot) == Present(slot) /\ ~isValidWebSDKUID(slot).ret
\* the messages of errors that name the field
ErrorsNaming(field) ==
  {k \in 1..Len(result.errors) :
     result.errors[k].kind = "invalid" /\ result.errors[k].field = field}
\* the field failed the check and errors holds exactly one message for it,
\* with the value; or it did not fail and errors holds none
OneErrorIfFails(field, slot) ==
  IF FailsCheck(slot)
  THEN /\ Cardinality(ErrorsNaming(field)) = 1
       /\ \A k \in ErrorsNaming(field) :
            ~JSToString(slot).threw /\ result.errors[k].value = JSToString(slot).s
  ELSE ErrorsNaming(field) = {}

\* C4 as stated: each of uid and botUid that is present and fails
\* isValidWebSDKUID gets exactly one error naming it and its value, isValid
\* is true iff no present field fails, iff errors is empty.
C4_EveryFailingField ==
  Called("validateConfiguration") =>
    /\ OneErrorIfFails("uid", argConfig.uid)
    /\ OneErrorIfFails("botUid", argConfig.botUid)
    /\ result.isValid = (~FailsCheck(argConfig.uid) /\ ~FailsCheck(argConfig.botUid))
    /\ result.isValid = (result.errors = <<>>)

\* an exception is raised inside the try block: config is null or
\* undefined, or a failing value (botUid first) has no string form
FailingUnformattable(slot) == FailsCheck(slot) /\ JSToString(slot).threw
InternalFailure(cfg) ==
  \/ cfg.kind # "object"
  \/ FailingUnformattable(cfg.botUid)
  \/ FailingUnformattable(cfg.uid)

\* C4 amended: when no failure is raised inside the try block, the claim as
\* stated; when one is (config is null or undefined, or a failing value
\* cannot be turned into a string), the errors pushed before it stay, one
\* message for the failure is appended last, the checks after it are
\* skipped, and isValid is false. In every case isValid iff errors is empty.
C4_FailingFields ==
  Called("validateConfiguration") =>
    /\ result.isValid = (result.errors = <<>>)
    /\ ~InternalFailure(argConfig) =>
         /\ OneErrorIfFails("uid", argConfig.uid)
         /\ OneErrorIfFails("botUid", argConfig.botUid)
         /\ Len(result.errors) = Cardinality(ErrorsNaming("uid") \cup ErrorsNaming("botUid"))
         /\ result.isValid = (~FailsCheck(argConfig.uid) /\ ~FailsCheck(argConfig.botUid))
    /\ InternalFailure(argConfig) =>
         /\ ~result.isValid
         /\ result.errors[Len(result.errors)].kind = "exception"
         /\ ErrorsNaming("uid") = {}
         /\ Len(result.errors) =
              IF argConfig.kind = "object" /\ FailsCheck(argConfig.botUid)
                 /\ ~JSToString(argConfig.botUid).threw
              THEN 2 ELSE 1
         /\ Len(result.errors) = 2 => ErrorsNaming("botUid") = {1}

C4_Witness ==
  /\ op = "validateConfiguration"
  /\ argConfig.uid = Num(-1)
  /\ ~Present(argConfig.botUid)
  /\ ~result.isValid
  /\ result.errors = <<InvalidMessage("uid", <<"-", "1">>)>>
  /\ result.warnings = <<>>

\* ---- C5
WarningDue(cfg) ==
  /\ Present(cfg.botUid)
  /\ isValidWebSDKUID(cfg.botUid).ret
  /\ ~isBotUser(cfg.botUid).ret

\* C5: validateConfiguration appends a warning iff botUid is present, passes
\* isValidWebSDKUID and isBotUser(botUid) is false; then exactly one warning
\* and no error for botUid. A warning leaves isValid alone, and uid never
\* produces a warning.
C5_Warnings ==
  Called("validateConfiguration") =>
    /\ Len(result.warnings) = IF WarningDue(argConfig) THEN 1 ELSE 0
    /\ \A k \in 1..Len(result.warnings) :
         /\ result.warnings[k].kind = "not_bot"
         /\ result.warnings[k].field = "botUid"
         /\ result.warnings[k].value = JSToString(argConfig.botUid).s
         /\ result.warnings[k].expected = BotChars
    /\ WarningDue(argConfig) => ErrorsNaming("botUid") = {}
    /\ WarningDue(argConfig) /\ ~FailsCheck(argConfig.uid) => result.isValid
    /\ result.isValid = (result.errors = <<>>)

C5_Witness ==
  /\ op = "validateConfiguration"
  /\ argConfig.botUid = Num(999)
  /\ ~Present(argConfig.uid)
  /\ result.isValid
  /\ result.errors = <<>>
  /\ Len(result.warnings) = 1

\* ---- C6
\* C6: no public function propagates a failure to its caller: the
\* predicates return false and validateConfiguration returns an invalid
\* result with a message for the failure, also when the failure is raised
\* while the input configuration is read or copied.
C6_NeverThrows ==
  /\ result.kind # "throw"
  /\ op = "compareUIDs" /\ argUid1.t # argUid2.t /\ "symbol" \in {argUid1.t, argUid2.t} =>
       ~result.b
  /\ op = "validateConfiguration"
       /\ (InternalFailure(argConfig) \/ Getter \in {argConfig.uid, argConfig.botUid}) =>
         /\ ~result.isValid
         /\ \E k \in 1..Len(result.errors) : result.errors[k].kind = "exception"

\* ---- C7
\* C7: for every integer or string u, isBotUser(u) equals
\* compareUIDs(u, getDefaultBotUID()) and compareUIDs(getDefaultBotUID(), u):
\* both read a string by the same parse.
C7_SameParse ==
  op = "isBotUser" /\ (IsInteger(argUid1) \/ IsString(argUid1)) =>
    /\ result.b = compareUIDs(argUid1, Num(getDefaultBotUID)).ret
    /\ result.b = compareUIDs(Num(getDefaultBotUID), argUid1).ret

C7_Witness ==
  /\ op = "isBotUser"
  /\ argUid1 = Str(BotChars \o <<"a", "b", "c">>)
  /\ result.b
  /\ compareUIDs(argUid1, Num(getDefaultBotUID)).ret

\* ---- C8
\* the own properties of the argument: those of an object, none of null or
\* undefined
OwnSlot(cfg, slot) == IF cfg.kind = "object" THEN slot ELSE Absent

\* the copy is right in the state left by a call of validateConfiguration
CopyHolds ==
  Called("validateConfiguration") =>
    /\ result.config.kind = "object"
    /\ result.config.uid = OwnSlot(argConfig, argConfig.uid)
    /\ result.config.botUid = OwnSlot(argConfig, argConfig.botUid)
    /\ result.config.ref # argConfig.ref

\* C8: whenever validateConfiguration returns, valid, invalid or after a
\* caught failure, result.config is a distinct object holding exactly the
\* fields and values of the input, and the call leaves the input as it was.
C8_ShallowCopy == [][CopyHolds' /\ argConfig' = argConfig]_vars

C8_Witness ==
  /\ op = "validateConfiguration"
  /\ argConfig.kind = "object"
  /\ argConfig.botUid = Sym(3)
  /\ argConfig.uid = Num(12345)
  /\ \E k \in 1..Len(result.errors) : result.errors[k].kind = "exception"
  /\ result.config.botUid = Sym(3)
  /\ result.config.uid = Num(12345)

\* ---- C9
\* what the last call would hand back if it were made again now
Again ==
  IF op = "isBotUser" THEN BoolResult(isBotUser(argUid1))
  ELSE IF op = "isValidWebSDKUID" THEN BoolResult(isValidWebSDKUID(argUid1))
  ELSE IF op = "compareUIDs" THEN BoolResult(compareUIDs(argUid1, argUid2))
  ELSE IF op = "getDefaultBotUID" THEN Result("number", FALSE, getDefaultBotUID, NoValidation)
  ELSE IF op = "validateConfiguration" THEN ValidationResult(validateConfiguration(argConfig))
  ELSE result

\* C9: after any sequence of calls getDefaultBotUID() returns 12345 and a
\* predicate called again on the same input returns what it returned
\* before: no call changes DEFAULT_BOT_UID.
C9_NoDrift ==
  /\ DEFAULT_BOT_UID = 12345
  /\ op = "getDefaultBotUID" => result.n = 12345
  /\ result = Again

C9_Witness ==
  /\ ncalls >= 2
  /\ op = "getDefaultBotUID"
  /\ result.n = 12345

\* ---- C10
ValidUID(v) == isValidWebSDKUID(v).ret

\* C10 as stated: over valid UIDs, compareUIDs(a, b) and compareUIDs(b, c)
\* give compareUIDs(a, c).
C10_Transitive ==
  op = "compareUIDs" /\ result.b /\ ValidUID(argUid1) /\ ValidUID(argUid2) =>
    \A c \in UIDValues :
      ValidUID(c) /\ compareUIDs(argUid2, c).ret => compareUIDs(argUid1, c).ret

\* C10 amended: over valid UIDs, compareUIDs(a, b) and compareUIDs(b, c)
\* give compareUIDs(a, c) unless a and c are both strings and b is a number.
C10_TransitiveButStrings ==
  op = "compareUIDs" /\ result.b /\ ValidUID(argUid1) /\ ValidUID(argUid2) =>
    \A c \in UIDValues :
      /\ ValidUID(c)
      /\ compareUIDs(argUid2, c).ret
      /\ ~(IsString(argUid1) /\ IsString(c) /\ argUid2.t = "number")
      => compareUIDs(argUid1, c).ret

C10_Witness ==
  /\ op = "compareUIDs"
  /\ argUid1 = Str(BotChars \o <<"a", "b", "c">>)
  /\ argUid2 = BotNumber
  /\ result.b
  /\ compareUIDs(argUid2, BotNumber).ret
  /\ compareUIDs(argUid1, BotNumber).ret

====
